---- MODULE Spec2Model ----
(***************************************************************************)
(* Model of the scraping engine of app.skillarly (src/server/scraper.js):  *)
(* scrapeLinkedInProfile, the per-call browser lifecycle and in-page       *)
(* extraction, and the rate limiter returned by createRateLimiter.         *)
(***************************************************************************)
EXTENDS Integers, Sequences, FiniteSets, TLC

\* ------------------------------------------------------------------ bounds

\* number of rateLimitedScrape calls made on the scheduler
MaxJobs == 3
\* number of operations outside the program that fail in one behaviour
MaxFaults == 2
\* number of elements a selector matches on a generated page
MaxElems == 2

\* ------------------------------------------------------- program constants

\* setTimeout(..., 60000 / requestsPerMinute)
CooldownBase == 60000
\* createRateLimiter(requestsPerMinute = 10)
DefaultRequestsPerMinute == 10

\* values of requestsPerMinute the scheduler is created with: the default,
\* a divisor of 60000 and a value that does not divide 60000
RpmSet == {DefaultRequestsPerMinute, 2, 7}

JobIds == 1..MaxJobs

\* ------------------------------------------------------------------- texts
\* A text is a sequence of one-character strings; null is a value that is no text.

Null == << "null" >>

Whitespace == {" ", "\n", "\t"}
Digits == {"0", "1", "2", "3", "4", "5", "6", "7", "8", "9"}

RECURSIVE TrimLeft(_)
TrimLeft(t) ==
  IF t # << >> /\ Head(t) \in Whitespace THEN TrimLeft(Tail(t)) ELSE t

RECURSIVE TrimRight(_)
TrimRight(t) ==
  IF t # << >> /\ t[Len(t)] \in Whitespace
  THEN TrimRight(SubSeq(t, 1, Len(t) - 1))
  ELSE t

\* String.prototype.trim
Trim(t) == TrimRight(TrimLeft(t))

\* connections.replace(/[^\d]/g, '')
StripNonDigits(t) == SelectSeq(t, LAMBDA c : c \in Digits)

\* ------------------------------------------------------------- selectors

nameSelectors ==
  << ".text-heading-xlarge", ".pv-text-details__left-panel h1",
     ".top-card-layout__title", ".pv-top-card--list h1",
     "h1[data-generated-suggestion-target]", ".ph5 h1",
     ".pv-top-card__photo + div h1", "[data-anonymize=\"person-name\"]" >>

titleSelectors ==
  << ".text-body-medium.break-words",
     ".pv-text-details__left-panel .text-body-medium",
     ".top-card-layout__headline", ".pv-top-card--list .text-body-medium",
     ".pv-text-details__left-panel .pv-shared-text-with-see-more",
     ".ph5 .text-body-medium" >>

locationSelectors ==
  << ".text-body-small.inline.t-black--light.break-words",
     ".pv-text-details__left-panel .pv-text-details__left-panel-item .text-body-small",
     ".top-card-layout__first-subline",
     ".pv-top-card--list .pv-top-card--list-bullet", ".ph5 .text-body-small" >>

skillSelectors ==
  << ".skill-entity__skill-name", ".pvs-skill__skill-name",
     ".skill-category-entity__skill-name", "[data-field=\"skill_name\"]",
     ".skill-name", ".pvs-list__item .mr1", ".skills-section .skill" >>

certificationSelectors ==
  << ".certification__title", ".pvs-certification__title",
     ".pv-accomplishments-block .pv-accomplishments-block__title",
     "[data-field=\"certification_name\"]", ".certification-name",
     ".pvs-list__item .mr1" >>

experienceSelectors ==
  << ".experience-entity__company-name",
     ".pvs-list .pvs-entity__caption-wrapper .t-14", ".pv-experience-entity h3",
     "[data-field=\"company_name\"]", ".company-name",
     ".pvs-list__item .t-14.t-black--light" >>

educationSelectors ==
  << ".education-entity__school-name",
     ".pvs-list .pvs-entity__caption-wrapper .t-16", ".pv-education-entity h3",
     "[data-field=\"school_name\"]", ".school-name", ".pvs-list__item .t-16" >>

profilePictureSelectors ==
  << ".pv-top-card-profile-picture__image", ".profile-photo-edit__preview",
     ".pv-top-card__photo img", ".photo-container img",
     ".presence-entity__image", "img[data-anonymize=\"headshot\"]",
     ".top-card-layout__entity-image img" >>

connectionSelectors ==
  << ".top-card-layout__headline + div a",
     ".pv-top-card--list .pv-top-card--list-bullet:last-child",
     ".pv-top-card__connections",
     ".pv-text-details__left-panel .pv-text-details__left-panel-item:last-child" >>

\* ------------------------------------------------------------------ pages
\* A page is what the browser holds after navigation: for each selector the
\* elements it matches, in document order, and whether the page's global
\* scope binds the identifier profilepicture.  An element is its textContent
\* and its src attribute (Null when the attribute is absent).

Elem(t, s) == [text |-> t, src |-> s]

\* document.querySelectorAll(selector)
QuerySelectorAll(page, selector) ==
  IF selector \in DOMAIN page.dom THEN page.dom[selector] ELSE << >>

\* document.querySelector(selector): << >> for null, else << element >>
QuerySelector(page, selector) ==
  LET all == QuerySelectorAll(page, selector)
  IN IF all = << >> THEN << >> ELSE << Head(all) >>

\* ------------------------------------------------------------- extraction

RECURSIVE GetTextFrom(_, _, _)
GetTextFrom(page, selectors, i) ==
  IF i > Len(selectors) THEN Null
  ELSE LET element == QuerySelector(page, selectors[i])
       IN IF element # << >>
          THEN Trim(element[1].text)
          ELSE GetTextFrom(page, selectors, i + 1)

\* the candidates tried from the last to the first
getTextByLastSelector(page, selectors) ==
  GetTextFrom(page, [i \in 1..Len(selectors) |-> selectors[Len(selectors) + 1 - i]], 1)

getTextBySelectors(page, selectors) == GetTextFrom(page, selectors, 1)

\* results.push(text) on an array in the place of the Set
ArrayPush(results, text) ==
  IF text = << >> THEN results ELSE Append(results, text)

\* results.add(text) for a non-empty trimmed text, on an insertion-ordered Set
SetAdd(results, text) ==
  IF text = << >> \/ \E k \in 1..Len(results) : results[k] = text
  THEN results
  ELSE Append(results, text)

RECURSIVE AddElements(_, _, _)
AddElements(results, elements, k) ==
  IF k > Len(elements) THEN results
  ELSE AddElements(SetAdd(results, Trim(elements[k].text)), elements, k + 1)

RECURSIVE GetAllTextsFrom(_, _, _, _)
GetAllTextsFrom(page, selectors, i, results) ==
  IF i > Len(selectors) THEN results
  ELSE GetAllTextsFrom(page, selectors, i + 1,
         AddElements(results, QuerySelectorAll(page, selectors[i]), 1))

getAllTextsBySelectors(page, selectors) ==
  GetAllTextsFrom(page, selectors, 1, << >>)

RECURSIVE GetAttributeFrom(_, _, _)
GetAttributeFrom(page, selectors, i) ==
  IF i > Len(selectors) THEN Null
  ELSE LET element == QuerySelector(page, selectors[i])
       IN IF element # << >> /\ element[1].src # Null /\ element[1].src # << >>
          THEN element[1].src
          ELSE GetAttributeFrom(page, selectors, i + 1)

\* getAttributeBySelectors(selectors, 'src')
getAttributeBySelectors(page, selectors) == GetAttributeFrom(page, selectors, 1)

\* connections returned as matched
ConnectionsUnsanitized(raw) == raw

\* connections ? connections.replace(/[^\d]/g, '') : null
ConnectionsField(raw) ==
  IF raw = Null \/ raw = << >> THEN Null ELSE StripNonDigits(raw)

\* the identifier profilepicture of the returned object literal resolves
\* only against the page's global scope (the local is named profilePicture)
ResolvesProfilepicture(page) == page.global # Null

\* the object literal returned by the function passed to page.evaluate
ExtractRecord(page) ==
  [ name           |-> getTextBySelectors(page, nameSelectors),
    title          |-> getTextBySelectors(page, titleSelectors),
    location       |-> getTextBySelectors(page, locationSelectors),
    skills         |-> getAllTextsBySelectors(page, skillSelectors),
    certifications |-> getAllTextsBySelectors(page, certificationSelectors),
    companies      |-> getAllTextsBySelectors(page, experienceSelectors),
    education      |-> getAllTextsBySelectors(page, educationSelectors),
    profilepicture |-> page.global,
    connections    |-> ConnectionsField(getTextBySelectors(page, connectionSelectors)) ]

\* ---------------------------------------------------------------- fixtures
\* Page contents a navigation can produce.

NoElements == [s \in {} |-> << >>]

\* no candidate selector matches anything
EmptyPage == [dom |-> NoElements, global |-> Null]

\* the same, on a page whose global scope binds profilepicture (an element
\* with that id); the binding serializes to an empty object
EmptyPageWithGlobal == [dom |-> NoElements, global |-> << "{", "}" >>]

ProfileDom ==
  (".pv-text-details__left-panel h1" :>
      << Elem(<< " ", "J", "D", " " >>, Null) >>)
  @@ (".ph5 h1" :> << Elem(<< "X" >>, Null) >>)
  @@ (".skill-name" :>
      << Elem(<< "G", "o" >>, Null), Elem(<< "R" >>, Null) >>)
  @@ (".pvs-list__item .mr1" :> << Elem(<< "G", "o", " " >>, Null) >>)
  @@ (".photo-container img" :> << Elem(<< >>, << "u" >>) >>)
  @@ (".pv-top-card__connections" :>
      << Elem(<< "5", "0", "0", "+", " ", "c" >>, Null) >>)

ProfilePage == [dom |-> ProfileDom, global |-> Null]

ProfilePageWithGlobal == [dom |-> ProfileDom, global |-> << "{", "}" >>]

Pages == {EmptyPage, EmptyPageWithGlobal, ProfilePage, ProfilePageWithGlobal}

\* ------------------------------------------------------------------ errors
\* An error is its message, a sequence of message parts.

ErrorOf(step) == << step >>

ReferenceError == << "profilepicture is not defined" >>

\* new Error(`Scraping failed: ${error.message}`)
ScrapingFailed(message) == << "Scraping failed: " >> \o message

\* ------------------------------------------------------------------- state

VARIABLES
  requestsPerMinute,  \* the argument of createRateLimiter
  queue,              \* queue: the jobs pushed and not yet shifted
  isProcessing,       \* isProcessing
  timers,             \* the start times of the pending setTimeout callbacks
  now,                \* the clock, in milliseconds
  enqueued,           \* the number of rateLimitedScrape calls so far
  jobState,           \* per job: None, Queued, Running, Done or Failed
  startedAt,          \* per job: the time fn() was called, -1 before
  settledAt,          \* per job: the time resolve or reject was called, -1 before
  handle,             \* per job: the state of the promise rateLimitedScrape returned
  delivered,          \* the latest resolve or reject call: its job and its argument
  faults,             \* the number of external failures so far
  call,               \* per job: the frame of its scrapeLinkedInProfile call
  users,              \* the account's row of the users table
  scrapeLogs,         \* the number of rows of scrape_logs
  emails,             \* the number of e-mails sent
  invocations,        \* the scraper calls made since the counter was last reset
  request,            \* per request: the state of its POST /scrape-profile handler
  scroll,             \* the state of an autoScroll call in the page
  intercepted         \* the requests the page has issued and how each was resolved

\* the state of the route layer (index.js)
serverVars == << users, scrapeLogs, emails, invocations, request >>

\* the state inside the page, followed in detail only on its own
pageVars == << scroll, intercepted >>

vars == << requestsPerMinute, queue, isProcessing, timers, now,
           enqueued, jobState, startedAt, settledAt, handle, delivered, faults, call,
           serverVars, pageVars >>

schedVars == << requestsPerMinute, queue, isProcessing, timers, now,
                enqueued, jobState, startedAt, settledAt, handle, delivered,
                serverVars, pageVars >>

\* the frame of a call that has not been made, or has been returned from
\*   pc        the statement the call is suspended at
\*   browser   none, open or closed
\*   closes    the number of browser.close invocations
\*   page      << >> before navigation, else << the page loaded >>
\*   data      << >>, or << the record page.evaluate returned >>
\*   ran       the awaited operations invoked so far, in order
\*   error     the error caught by the catch clause
\*   external  whether an operation outside the program failed
\*   settled   pending, fulfilled or rejected
\*   value     << the record the call fulfilled with >>
\*   message   the message of the error the call rejected with
NoCall ==
  [ pc |-> "none", browser |-> "none", closes |-> 0, page |-> << >>,
    data |-> << >>, ran |-> << >>, error |-> << >>, external |-> FALSE,
    settled |-> "pending", value |-> << >>, message |-> << >> ]

NewCall == [NoCall EXCEPT !.pc = "launch"]

\* before any resolve or reject call
NothingDelivered == [job |-> 0, value |-> << >>, message |-> << >>]

\* two POST /scrape-profile requests made for the same account
Requests == {1, 2}

\* a handler that has not been entered
\*   pc        the await the handler is suspended at
\*   seen      user.monthly_scrapes as returned by the upsert
\*   allowed   limits[plan]
\*   status    the HTTP status of the response, 0 before
\*   error     the error field of the response
\*   parsed    << >>, or << the record the scraper returned >>
\*   failed    whether the scraper call rejected
NoRequest ==
  [ pc |-> "idle", seen |-> 0, allowed |-> 0, status |-> 0, error |-> "",
    parsed |-> << >>, failed |-> FALSE ]

\* an autoScroll call that has not been made
\*   pc           none, interval (the first page.evaluate runs), top (it has
\*                resolved, window.scrollTo is awaited) or done
\*   timer        whether the setInterval timer is armed
\*   totalHeight  totalHeight
\*   scrollHeight document.body.scrollHeight
\*   steps        the number of window.scrollBy calls
NoScroll ==
  [ pc |-> "none", timer |-> FALSE, totalHeight |-> 0, scrollHeight |-> 0,
    steps |-> 0 ]

\* the page followed only through the awaits of the call
NoPage ==
  /\ scroll = NoScroll
  /\ intercepted = << >>

\* the route layer when only the scraping engine is exercised: a basic
\* account that has not scraped, and no request
NoServer ==
  /\ users = [plan |-> "basic", monthly_scrapes |-> 0, profile |-> << >>]
  /\ scrapeLogs = 0
  /\ emails = 0
  /\ invocations = 0
  /\ request = [r \in Requests |-> NoRequest]

Init ==
  /\ NoServer
  /\ NoPage
  /\ requestsPerMinute \in RpmSet
  /\ queue = << >>
  /\ isProcessing = FALSE
  /\ timers = {}
  /\ now = 0
  /\ enqueued = 0
  /\ jobState = [j \in JobIds |-> "None"]
  /\ startedAt = [j \in JobIds |-> -1]
  /\ settledAt = [j \in JobIds |-> -1]
  /\ handle = [j \in JobIds |-> "pending"]
  /\ delivered = NothingDelivered
  /\ faults = 0
  /\ call = [j \in JobIds |-> NoCall]

\* ------------------------------------------------- scrapeLinkedInProfile
\* Every awaited operation is one step; ok says whether it returned or threw.

Invoke(c, step) == [c EXCEPT !.ran = Append(@, step)]

\* an exception outside the try block leaves the function: the returned
\* promise rejects with the error as thrown
ThrowOutsideTry(c, step) ==
  [c EXCEPT !.pc = "settled", !.settled = "rejected",
            !.message = ErrorOf(step), !.external = TRUE]

\* an exception inside the try block enters the catch clause
ThrowInsideTry(c, error, isExternal) ==
  [c EXCEPT !.pc = "catch", !.error = error,
            !.external = @ \/ isExternal]

\* const browser = await puppeteer.launch(...)
LaunchStep(c, ok) ==
  IF ok THEN [Invoke(c, "launch") EXCEPT !.pc = "newPage", !.browser = "open"]
  ELSE ThrowOutsideTry(Invoke(c, "launch"), "launch")

SetupSteps == << "newPage", "setViewport", "setUserAgent", "setRequestInterception" >>

SetupNext(step) ==
  CASE step = "newPage" -> "setViewport"
    [] step = "setViewport" -> "setUserAgent"
    [] step = "setUserAgent" -> "setRequestInterception"
    [] step = "setRequestInterception" -> "goto"

\* browser.newPage, page.setViewport, page.setUserAgent and
\* page.setRequestInterception, all before the try block
SetupStep(c, ok) ==
  IF ok THEN [Invoke(c, c.pc) EXCEPT !.pc = SetupNext(c.pc)]
  ELSE ThrowOutsideTry(Invoke(c, c.pc), c.pc)

\* what page.goto can do: load a page, fail, or exceed its timeout
GotoOutcomes ==
  {[page |-> << p >>, failure |-> "none"] : p \in Pages}
  \cup {[page |-> << >>, failure |-> f] : f \in {"net", "timeout"}}

\* await page.goto(profileUrl, {waitUntil: 'domcontentloaded', timeout: 30000})
GotoStep(c, outcome) ==
  IF outcome.failure = "none"
  THEN [Invoke(c, "goto") EXCEPT !.pc = "waitRandom", !.page = outcome.page]
  ELSE ThrowInsideTry(Invoke(c, "goto"), << "goto", outcome.failure >>, TRUE)

\* autoScroll(page) called without await: the settle wait and page.evaluate
\* follow the random wait while the page still scrolls
TryNextWithoutAwaitingScroll(step) ==
  CASE step = "waitRandom" -> "waitSettle"
    [] step = "waitSettle" -> "evaluate"
    [] step = "scrollDown" -> "scrollTop"
    [] step = "scrollTop" -> "evaluate"

\* the statements of the try block after page.goto up to page.evaluate
TryNext(step) ==
  CASE step = "waitRandom" -> "scrollDown"
    [] step = "scrollDown" -> "scrollTop"
    [] step = "scrollTop" -> "waitSettle"
    [] step = "waitSettle" -> "evaluate"

\* await page.waitForTimeout(...), twice
WaitStep(c, ok) ==
  IF ok THEN [Invoke(c, c.pc) EXCEPT !.pc = TryNext(c.pc)]
  ELSE ThrowInsideTry(Invoke(c, c.pc), ErrorOf(c.pc), TRUE)

\* autoScroll: the scroll down and the scroll back to the top
ScrollStep(c, ok) ==
  IF ok THEN [Invoke(c, c.pc) EXCEPT !.pc = TryNext(c.pc)]
  ELSE ThrowInsideTry(Invoke(c, c.pc), ErrorOf(c.pc), TRUE)

\* const data = await page.evaluate(() => {...}): the query mechanism may
\* fail; else the function runs in the page and returns the object literal,
\* whose evaluation throws when profilepicture is unbound
EvaluateStep(c, ok) ==
  IF ~ok THEN ThrowInsideTry(Invoke(c, "evaluate"), ErrorOf("evaluate"), TRUE)
  ELSE IF ~ResolvesProfilepicture(c.page[1])
  THEN ThrowInsideTry(Invoke(c, "evaluate"), ReferenceError, FALSE)
  ELSE [Invoke(c, "evaluate") EXCEPT !.pc = "close",
                                      !.data = << ExtractRecord(c.page[1]) >>]

\* await browser.close(); return data;
CloseStep(c, ok) ==
  IF ok
  THEN [Invoke(c, "close") EXCEPT !.pc = "settled", !.browser = "closed",
           !.closes = @ + 1, !.settled = "fulfilled", !.value = c.data]
  ELSE ThrowInsideTry([Invoke(c, "close") EXCEPT !.closes = @ + 1],
                      ErrorOf("close"), TRUE)

\* a catch clause that closes the browser and returns what was read
CatchStepReturningData(c, ok) ==
  [Invoke(c, "catch close") EXCEPT !.pc = "settled", !.browser = "closed",
     !.closes = @ + 1, !.settled = "fulfilled", !.value = c.data]

\* catch (error) { await browser.close(); throw new Error(...) }
CatchStep(c, ok) ==
  IF ok
  THEN [Invoke(c, "catch close") EXCEPT !.pc = "settled", !.browser = "closed",
           !.closes = @ + 1, !.settled = "rejected",
           !.message = ScrapingFailed(c.error)]
  ELSE [Invoke(c, "catch close") EXCEPT !.pc = "settled", !.closes = @ + 1,
           !.settled = "rejected", !.message = ErrorOf("close"),
           !.external = TRUE]

\* whether an external operation may return (TRUE) or throw (FALSE)
Outcomes == IF faults < MaxFaults THEN BOOLEAN ELSE {TRUE}

Launch(j) ==
  /\ call[j].pc = "launch"
  /\ \E ok \in Outcomes :
       /\ call' = [call EXCEPT ![j] = LaunchStep(@, ok)]
       /\ faults' = IF ok THEN faults ELSE faults + 1
  /\ UNCHANGED schedVars

Setup(j) ==
  /\ \E i \in 1..Len(SetupSteps) : call[j].pc = SetupSteps[i]
  /\ \E ok \in Outcomes :
       /\ call' = [call EXCEPT ![j] = SetupStep(@, ok)]
       /\ faults' = IF ok THEN faults ELSE faults + 1
  /\ UNCHANGED schedVars

Goto(j) ==
  /\ call[j].pc = "goto"
  /\ \E outcome \in GotoOutcomes :
       /\ outcome.failure # "none" => FALSE \in Outcomes
       /\ call' = [call EXCEPT ![j] = GotoStep(@, outcome)]
       /\ faults' = IF outcome.failure = "none" THEN faults ELSE faults + 1
  /\ UNCHANGED schedVars

WaitForTimeout(j) ==
  /\ call[j].pc \in {"waitRandom", "waitSettle"}
  /\ \E ok \in Outcomes :
       /\ call' = [call EXCEPT ![j] = WaitStep(@, ok)]
       /\ faults' = IF ok THEN faults ELSE faults + 1
  /\ UNCHANGED schedVars

AutoScroll(j) ==
  /\ call[j].pc \in {"scrollDown", "scrollTop"}
  /\ \E ok \in Outcomes :
       /\ call' = [call EXCEPT ![j] = ScrollStep(@, ok)]
       /\ faults' = IF ok THEN faults ELSE faults + 1
  /\ UNCHANGED schedVars

Evaluate(j) ==
  /\ call[j].pc = "evaluate"
  /\ \E ok \in Outcomes :
       /\ call' = [call EXCEPT ![j] = EvaluateStep(@, ok)]
       /\ faults' = IF ok THEN faults ELSE faults + 1
  /\ UNCHANGED schedVars

Close(j) ==
  /\ call[j].pc = "close"
  /\ \E ok \in Outcomes :
       /\ call' = [call EXCEPT ![j] = CloseStep(@, ok)]
       /\ faults' = IF ok THEN faults ELSE faults + 1
  /\ UNCHANGED schedVars

Catch(j) ==
  /\ call[j].pc = "catch"
  /\ \E ok \in Outcomes :
       /\ call' = [call EXCEPT ![j] = CatchStep(@, ok)]
       /\ faults' = IF ok THEN faults ELSE faults + 1
  /\ UNCHANGED schedVars

\* ------------------------------------------------------ createRateLimiter

\* processQueue without the test of isProcessing
CanProcessIgnoringFlag(q, busy) == Len(q) # 0

\* if (isProcessing || queue.length === 0) return;
CanProcess(q, busy) == ~(busy \/ Len(q) = 0)

\* queue.pop() in the place of queue.shift()
Pop(q) == [job |-> q[Len(q)], rest |-> SubSeq(q, 1, Len(q) - 1)]

\* queue.shift(): the job taken and the queue left
Shift(q) == [job |-> Head(q), rest |-> Tail(q)]

\* a delay of 60 / requestsPerMinute, in the timer's milliseconds
CooldownInSeconds(rpm) == 60 \div rpm

\* the delay of setTimeout(..., 60000 / requestsPerMinute): the timer runs
\* on whole milliseconds, at least one
CooldownDelay(rpm) ==
  IF CooldownBase \div rpm < 1 THEN 1 ELSE CooldownBase \div rpm

\* a timer started at start has expired at time t
TimerDue(start, t, rpm) == t - start >= CooldownDelay(rpm)

\* processQueue() up to its await, called with the queue q, the flag busy
\* and the job states js: takes the head job and calls fn(), which runs
\* scrapeLinkedInProfile up to its first await
ProcessQueue(q, busy, js) ==
  IF CanProcess(q, busy)
  THEN LET j == Shift(q).job
       IN /\ isProcessing' = TRUE
          /\ queue' = Shift(q).rest
          /\ jobState' = [js EXCEPT ![j] = "Running"]
          /\ startedAt' = [startedAt EXCEPT ![j] = now]
          /\ call' = [call EXCEPT ![j] = NewCall]
  ELSE /\ isProcessing' = busy
       /\ queue' = q
       /\ jobState' = js
       /\ UNCHANGED << startedAt, call >>

\* rateLimitedScrape(profileUrl): new Promise, queue.push, processQueue()
Enqueue ==
  /\ enqueued < MaxJobs
  /\ LET j == enqueued + 1
     IN /\ enqueued' = j
        /\ ProcessQueue(Append(queue, j), isProcessing,
                        [jobState EXCEPT ![j] = "Queued"])
  /\ UNCHANGED << requestsPerMinute, timers, now, settledAt, handle, delivered,
                  faults,
                  serverVars, pageVars >>

\* resolve and reject of the first entry pushed, not of the entry shifted
DeliverToFirstJob(j, c) == [job |-> 1, value |-> c.value, message |-> c.message]

\* resolve() and reject() called without their argument
DeliverNothing(j, c) == [job |-> j, value |-> << >>, message |-> << >>]

\* resolve(result) or reject(error), the functions of job j's promise,
\* called with what the call of frame c settled with
Deliver(j, c) == [job |-> j, value |-> c.value, message |-> c.message]

\* a processQueue whose setTimeout is inside the try block, after resolve:
\* a rejected job arms no timer
ResumeArmingOnSuccess(j) ==
  /\ jobState[j] = "Running"
  /\ call[j].settled # "pending"
  /\ handle' = [handle EXCEPT ![j] = call[j].settled]
  /\ delivered' = Deliver(j, call[j])
  /\ jobState' = [jobState EXCEPT
                    ![j] = IF call[j].settled = "fulfilled" THEN "Done" ELSE "Failed"]
  /\ settledAt' = [settledAt EXCEPT ![j] = now]
  /\ timers' = IF call[j].settled = "fulfilled" THEN timers \cup {now} ELSE timers
  /\ call' = [call EXCEPT ![j] = NoCall]
  /\ UNCHANGED << requestsPerMinute, queue, isProcessing, now,
                  enqueued, startedAt, faults,
                  serverVars, pageVars >>

\* a processQueue that gives up on a job that has not settled: it rejects
\* the job's promise and arms the cooldown
ResumeOnTimeout(j) ==
  /\ jobState[j] = "Running"
  /\ handle' = [handle EXCEPT ![j] = "rejected"]
  /\ delivered' = Deliver(j, call[j])
  /\ jobState' = [jobState EXCEPT ![j] = "Failed"]
  /\ settledAt' = [settledAt EXCEPT ![j] = now]
  /\ timers' = timers \cup {now}
  /\ call' = [call EXCEPT ![j] = NoCall]
  /\ UNCHANGED << requestsPerMinute, queue, isProcessing, now,
                  enqueued, startedAt, faults,
                  serverVars, pageVars >>

\* processQueue() after await fn(): resolve or reject, then setTimeout;
\* the frame of the scrapeLinkedInProfile call is gone
Resume(j) ==
  /\ jobState[j] = "Running"
  /\ call[j].settled # "pending"
  /\ handle' = [handle EXCEPT ![j] = call[j].settled]
  /\ delivered' = Deliver(j, call[j])
  /\ jobState' = [jobState EXCEPT
                    ![j] = IF call[j].settled = "fulfilled" THEN "Done" ELSE "Failed"]
  /\ settledAt' = [settledAt EXCEPT ![j] = now]
  /\ timers' = timers \cup {now}
  /\ call' = [call EXCEPT ![j] = NoCall]
  /\ UNCHANGED << requestsPerMinute, queue, isProcessing, now,
                  enqueued, startedAt, faults,
                  serverVars, pageVars >>

\* a setTimeout callback that clears the flag and does not call processQueue
TimerFireWithoutDequeue ==
  \E start \in timers :
    /\ TimerDue(start, now, requestsPerMinute)
    /\ timers' = timers \ {start}
    /\ isProcessing' = FALSE
    /\ UNCHANGED << requestsPerMinute, queue, now, enqueued, jobState, startedAt,
                    settledAt, handle, delivered, faults, call,
                    serverVars, pageVars >>

\* the setTimeout callback: isProcessing = false; processQueue()
TimerFire ==
  \E start \in timers :
    /\ TimerDue(start, now, requestsPerMinute)
    /\ timers' = timers \ {start}
    /\ ProcessQueue(queue, FALSE, jobState)
    /\ UNCHANGED << requestsPerMinute, now, enqueued, settledAt, handle,
                    delivered, faults,
                  serverVars, pageVars >>

\* the time a pending callback has been waiting
Elapsed(start) == now - start

\* The program reads the clock only through its timer.  While a callback is
\* pending the clock advances to the instants that matter to it: one
\* millisecond after it was armed, one millisecond before it expires, and
\* its expiry.  While a job that has just started is navigating, the clock
\* may advance by a cooldown, which gives the job a duration.
Advances ==
  IF timers # {}
  THEN {d \in {g - Elapsed(start) :
                  g \in {1, CooldownDelay(requestsPerMinute) - 1,
                         CooldownDelay(requestsPerMinute)},
                  start \in timers} : d > 0}
  ELSE IF \E j \in JobIds : call[j].pc = "goto" /\ startedAt[j] = now
  THEN {CooldownDelay(requestsPerMinute)}
  ELSE {}

\* Time passes; an expired callback runs before the clock advances again.
Tick ==
  /\ \A start \in timers : ~TimerDue(start, now, requestsPerMinute)
  /\ \E d \in Advances : now' = now + d
  /\ UNCHANGED << requestsPerMinute, queue, isProcessing, timers, enqueued,
                  jobState, startedAt, settledAt, handle, delivered, faults, call,
                  serverVars, pageVars >>

Next ==
  \/ Enqueue
  \/ TimerFire
  \/ Tick
  \/ \E j \in JobIds :
       \/ Launch(j)
       \/ Setup(j)
       \/ Goto(j)
       \/ WaitForTimeout(j)
       \/ AutoScroll(j)
       \/ Evaluate(j)
       \/ Close(j)
       \/ Catch(j)
       \/ Resume(j)

Spec == Init /\ [][Next]_vars

\* the clock advances only while a cooldown is pending: the jobs take no time
CooldownTick == timers # {} /\ Tick

\* ------------------------------------------------- extraction on any page
\* The in-page function applied to generated pages: a call that has loaded
\* its page and is about to run page.evaluate, on a page where the first two
\* candidate selectors of one field match up to MaxElems elements each.

\* the text '500+ connections'
FiveHundredPlus ==
  << "5", "0", "0", "+", " ", "c", "o", "n", "n", "e", "c", "t", "i", "o", "n", "s" >>

\* the texts of generated elements: blank, two that trim to the same text,
\* and one with digits among other characters
TextSet == { << " " >>, << "a" >>, << " ", "a" >>, FiveHundredPlus }

SeqsUpTo(S, n) == UNION {[1..k -> S] : k \in 0..n}

TextFields == {"name", "title", "location", "skills", "certifications",
               "companies", "education", "connections"}

\* the candidate list each field of the record is read with
FieldSelectors(f) ==
  CASE f = "name" -> nameSelectors
    [] f = "title" -> titleSelectors
    [] f = "location" -> locationSelectors
    [] f = "skills" -> skillSelectors
    [] f = "certifications" -> certificationSelectors
    [] f = "companies" -> experienceSelectors
    [] f = "education" -> educationSelectors
    [] f = "connections" -> connectionSelectors
    [] f = "profilepicture" -> profilePictureSelectors

GenPage(f, first, second, g) ==
  [ dom |-> (FieldSelectors(f)[1] :> first) @@ (FieldSelectors(f)[2] :> second),
    global |-> g ]

\* the src attributes of generated image elements: absent, or one of two URLs
SrcSet == { Null, << "u" >>, << "v" >> }

\* the elements generated for field f: image elements with or without a
\* src for the picture, elements with a text for the other fields
GenElems(f) ==
  IF f = "profilepicture"
  THEN {Elem(<< >>, src) : src \in SrcSet}
  ELSE {Elem(t, Null) : t \in TextSet}

\* the pages on which the two first candidates of field f match up to
\* MaxElems elements each, with and without the global binding
GenPages(f) ==
  { GenPage(f, first, second, g) :
      first \in SeqsUpTo(GenElems(f), MaxElems),
      second \in SeqsUpTo(GenElems(f), MaxElems),
      g \in {Null, << "{", "}" >>} }

\* the awaited operations that precede page.evaluate
StepsBeforeEvaluate ==
  << "launch" >> \o SetupSteps
    \o << "goto", "waitRandom", "scrollDown", "scrollTop", "waitSettle" >>

\* the frame of a call suspended at page.evaluate with page p loaded
AtEvaluate(p) ==
  [NoCall EXCEPT !.pc = "evaluate", !.browser = "open", !.page = << p >>,
                 !.ran = StepsBeforeEvaluate]

\* the first job of a scheduler, suspended at page.evaluate on a generated
\* page; nothing outside the program fails from here on
ExtractInit ==
  /\ NoServer
  /\ NoPage
  /\ requestsPerMinute = DefaultRequestsPerMinute
  /\ queue = << >>
  /\ isProcessing = TRUE
  /\ timers = {}
  /\ now = 0
  /\ enqueued = 1
  /\ jobState = [j \in JobIds |-> IF j = 1 THEN "Running" ELSE "None"]
  /\ startedAt = [j \in JobIds |-> IF j = 1 THEN 0 ELSE -1]
  /\ settledAt = [j \in JobIds |-> -1]
  /\ handle = [j \in JobIds |-> "pending"]
  /\ delivered = NothingDelivered
  /\ faults = MaxFaults
  /\ \E f \in TextFields \cup {"profilepicture"} :
       \E p \in GenPages(f) :
         call = [j \in JobIds |-> IF j = 1 THEN AtEvaluate(p) ELSE NoCall]

ExtractNext ==
  \/ Evaluate(1)
  \/ Close(1)
  \/ Catch(1)

ExtractSpec == ExtractInit /\ [][ExtractNext]_vars

\* ------------------------------------------------------- a burst of calls
\* A scheduler on which rateLimitedScrape has been called
\* requestsPerMinute + 1 times at the same instant: the first call shifted
\* its job and called fn(), the others returned at the guard of processQueue.
\* Every job settles at the instant it starts.

\* a requestsPerMinute that divides 60000 and the smallest that does not
BurstRpmSet == {2, 7}

BurstJobs(rpm) == 1..(rpm + 1)

BurstInit ==
  /\ NoServer
  /\ NoPage
  /\ requestsPerMinute \in BurstRpmSet
  /\ queue = [i \in 1..requestsPerMinute |-> i + 1]
  /\ isProcessing = TRUE
  /\ timers = {}
  /\ now = 0
  /\ enqueued = requestsPerMinute + 1
  /\ jobState = [j \in BurstJobs(requestsPerMinute) |->
                   IF j = 1 THEN "Running" ELSE "Queued"]
  /\ startedAt = [j \in BurstJobs(requestsPerMinute) |-> IF j = 1 THEN 0 ELSE -1]
  /\ settledAt = [j \in BurstJobs(requestsPerMinute) |-> -1]
  /\ handle = [j \in BurstJobs(requestsPerMinute) |-> "pending"]
  /\ delivered = NothingDelivered
  /\ faults = MaxFaults
  /\ call = [j \in BurstJobs(requestsPerMinute) |->
               IF j = 1 THEN NewCall ELSE NoCall]

BurstNext ==
  \/ TimerFire
  \/ CooldownTick
  \/ \E j \in DOMAIN jobState :
       \/ Launch(j)
       \/ Setup(j)
       \/ Goto(j)
       \/ WaitForTimeout(j)
       \/ AutoScroll(j)
       \/ Evaluate(j)
       \/ Close(j)
       \/ Catch(j)
       \/ Resume(j)

BurstSpec == BurstInit /\ [][BurstNext]_vars

\* ------------------------------------------------------- two schedulers
\* Two rate limiters made by two createRateLimiter calls.  requestsPerMinute,
\* queue, isProcessing, timers and enqueued hold one value per scheduler; the
\* jobs of both are numbered together, odd numbers on scheduler 1 and even
\* numbers on scheduler 2, and run scrapeLinkedInProfile as before.

Schedulers == {1, 2}

\* queue and isProcessing declared once for the module, outside
\* createRateLimiter: every scheduler uses the same pair
SharedScope(s) == 1

\* const queue = []; let isProcessing = false; inside createRateLimiter:
\* each call binds a pair of its own
Scope(s) == s

QueueOf(s) == queue[Scope(s)]

FlagOf(s) == isProcessing[Scope(s)]

\* the scheduler whose rateLimitedScrape made job j
Owner(j) == IF j % 2 = 1 THEN 1 ELSE 2

\* the job the next rateLimitedScrape call on scheduler s makes
NextJob(s) == 2 * enqueued[s] + s

PairInit ==
  /\ NoServer
  /\ NoPage
  /\ requestsPerMinute \in [Schedulers -> {DefaultRequestsPerMinute, 2}]
  /\ queue = [s \in Schedulers |-> << >>]
  /\ isProcessing = [s \in Schedulers |-> FALSE]
  /\ timers = [s \in Schedulers |-> {}]
  /\ now = 0
  /\ enqueued = [s \in Schedulers |-> 0]
  /\ jobState = [j \in JobIds |-> "None"]
  /\ startedAt = [j \in JobIds |-> -1]
  /\ settledAt = [j \in JobIds |-> -1]
  /\ handle = [j \in JobIds |-> "pending"]
  /\ delivered = NothingDelivered
  /\ faults = MaxFaults
  /\ call = [j \in JobIds |-> NoCall]

\* processQueue() of scheduler s up to its await, called with the queue q,
\* the flag busy and the job states js
PairProcessQueue(s, q, busy, js) ==
  IF CanProcess(q, busy)
  THEN LET j == Shift(q).job
       IN /\ isProcessing' = [isProcessing EXCEPT ![Scope(s)] = TRUE]
          /\ queue' = [queue EXCEPT ![Scope(s)] = Shift(q).rest]
          /\ jobState' = [js EXCEPT ![j] = "Running"]
          /\ startedAt' = [startedAt EXCEPT ![j] = now]
          /\ call' = [call EXCEPT ![j] = NewCall]
  ELSE /\ isProcessing' = [isProcessing EXCEPT ![Scope(s)] = busy]
       /\ queue' = [queue EXCEPT ![Scope(s)] = q]
       /\ jobState' = js
       /\ UNCHANGED << startedAt, call >>

\* rateLimitedScrape(profileUrl) of scheduler s
PairEnqueue(s) ==
  /\ NextJob(s) \in JobIds
  /\ LET j == NextJob(s)
     IN /\ enqueued' = [enqueued EXCEPT ![s] = @ + 1]
        /\ PairProcessQueue(s, Append(QueueOf(s), j), FlagOf(s),
                            [jobState EXCEPT ![j] = "Queued"])
  /\ UNCHANGED << requestsPerMinute, timers, now, settledAt, handle, delivered,
                  faults,
                  serverVars, pageVars >>

\* processQueue() of job j's scheduler after await fn()
PairResume(j) ==
  /\ jobState[j] = "Running"
  /\ call[j].settled # "pending"
  /\ handle' = [handle EXCEPT ![j] = call[j].settled]
  /\ delivered' = Deliver(j, call[j])
  /\ jobState' = [jobState EXCEPT
                    ![j] = IF call[j].settled = "fulfilled" THEN "Done" ELSE "Failed"]
  /\ settledAt' = [settledAt EXCEPT ![j] = now]
  /\ timers' = [timers EXCEPT ![Owner(j)] = @ \cup {now}]
  /\ call' = [call EXCEPT ![j] = NoCall]
  /\ UNCHANGED << requestsPerMinute, queue, isProcessing, now,
                  enqueued, startedAt, faults,
                  serverVars, pageVars >>

\* the setTimeout callback of scheduler s
PairTimerFire(s) ==
  \E start \in timers[s] :
    /\ TimerDue(start, now, requestsPerMinute[s])
    /\ timers' = [timers EXCEPT ![s] = @ \ {start}]
    /\ PairProcessQueue(s, QueueOf(s), FALSE, jobState)
    /\ UNCHANGED << requestsPerMinute, now, enqueued, settledAt, handle,
                    delivered, faults,
                  serverVars, pageVars >>

\* the clock advances to the next expiry of a callback of either scheduler
PairTick ==
  /\ \A s \in Schedulers : \A start \in timers[s] :
       ~TimerDue(start, now, requestsPerMinute[s])
  /\ \E s \in Schedulers : \E start \in timers[s] :
       /\ now' = start + CooldownDelay(requestsPerMinute[s])
       /\ \A t \in Schedulers : \A other \in timers[t] :
            now' <= other + CooldownDelay(requestsPerMinute[t])
  /\ UNCHANGED << requestsPerMinute, queue, isProcessing, timers, enqueued,
                  jobState, startedAt, settledAt, handle, delivered, faults, call,
                  serverVars, pageVars >>

PairNext ==
  \/ PairTick
  \/ \E s \in Schedulers :
       \/ PairEnqueue(s)
       \/ PairTimerFire(s)
  \/ \E j \in JobIds :
       \/ Launch(j)
       \/ Setup(j)
       \/ Goto(j)
       \/ WaitForTimeout(j)
       \/ AutoScroll(j)
       \/ Evaluate(j)
       \/ Close(j)
       \/ Catch(j)
       \/ PairResume(j)

PairSpec == PairInit /\ [][PairNext]_vars

\* ------------------------------------------------- POST /scrape-profile
\* The route of index.js that calls the scraping engine for an account, and
\* POST /reset-scrapes.  Each await of the handler is a step; between two
\* steps of one request the steps of other requests may run.  The handler
\* calls scrapeLinkedInProfile itself: request r runs the call of frame r.

\* the variables of the rate limiter, which the route does not use
limiterVars == << requestsPerMinute, queue, isProcessing, timers, now,
                 enqueued, jobState, startedAt, settledAt, handle, delivered >>

Plans == {"basic", "pro", "premium"}

\* const limits = { basic: 2, pro: 10, premium: 100 }
PlanLimit(plan) ==
  CASE plan = "basic" -> 2
    [] plan = "pro" -> 10
    [] plan = "premium" -> 100

\* an account at the start of a period, one scrape below its limit, or at
\* its limit, every scrape so far counted; no request yet
ServerInit ==
  /\ \E plan \in Plans :
       \E used \in {0, PlanLimit(plan) - 1, PlanLimit(plan)} :
         /\ users = [plan |-> plan, monthly_scrapes |-> used, profile |-> << >>]
         /\ invocations = used
  /\ scrapeLogs = 0
  /\ emails = 0
  /\ request = [r \in Requests |-> NoRequest]
  /\ NoPage
  /\ requestsPerMinute = DefaultRequestsPerMinute
  /\ queue = << >>
  /\ isProcessing = FALSE
  /\ timers = {}
  /\ now = 0
  /\ enqueued = 0
  /\ jobState = [j \in JobIds |-> "None"]
  /\ startedAt = [j \in JobIds |-> -1]
  /\ settledAt = [j \in JobIds |-> -1]
  /\ handle = [j \in JobIds |-> "pending"]
  /\ delivered = NothingDelivered
  /\ faults = 0
  /\ call = [r \in Requests |-> NoCall]

\* the response of the handler
Respond(q, status, error) ==
  [q EXCEPT !.pc = "done", !.status = status, !.error = error]

\* the handler up to the await of the upsert: the URL is valid, and the
\* result of create_user_bypass_rls is not used when the upsert returns
Receive(r) ==
  /\ request[r].pc = "idle"
  /\ request' = [request EXCEPT ![r].pc = "upsert"]
  /\ UNCHANGED << users, scrapeLogs, emails, invocations, faults, call, limiterVars, pageVars >>

\* if ((user?.monthly_scrapes || 0) >= allowed)
LimitReached(seen, allowed) == seen >= allowed

\* the upsert returns the row, or no row is found; then the limit check
\* and, under the limit, the call of scraper(profileUrl)
Upsert(r) ==
  /\ request[r].pc = "upsert"
  /\ \E ok \in Outcomes :
       /\ faults' = IF ok THEN faults ELSE faults + 1
       /\ IF ~ok
          THEN /\ request' = [request EXCEPT ![r] = Respond(@, 500, "")]
               /\ UNCHANGED << invocations, call >>
          ELSE IF LimitReached(users.monthly_scrapes, PlanLimit(users.plan))
          THEN /\ request' = [request EXCEPT ![r] =
                                Respond([@ EXCEPT !.seen = users.monthly_scrapes,
                                                  !.allowed = PlanLimit(users.plan)],
                                        403, "limit_reached")]
               /\ UNCHANGED << invocations, call >>
          ELSE /\ request' = [request EXCEPT ![r].pc = "scrape",
                                              ![r].seen = users.monthly_scrapes,
                                              ![r].allowed = PlanLimit(users.plan)]
               /\ invocations' = invocations + 1
               /\ call' = [call EXCEPT ![r] = NewCall]
  /\ UNCHANGED << users, scrapeLogs, emails, limiterVars, pageVars >>

\* a handler that counts the attempt when the scrape has failed
AfterScrapeCountingAttempt(r) ==
  /\ request[r].pc = "scrape"
  /\ call[r].settled # "pending"
  /\ request' = [request EXCEPT ![r] =
                   IF call[r].settled = "rejected"
                   THEN Respond([@ EXCEPT !.failed = TRUE], 500, "scrape_failed")
                   ELSE [@ EXCEPT !.pc = "update", !.parsed = call[r].value]]
  /\ users' = IF call[r].settled = "rejected"
              THEN [users EXCEPT !.monthly_scrapes = request[r].seen + 1]
              ELSE users
  /\ call' = [call EXCEPT ![r] = NoCall]
  /\ UNCHANGED << scrapeLogs, emails, invocations, faults, limiterVars, pageVars >>

\* the handler after await scraper(profileUrl): the outer catch answers a
\* rejection; a record goes into the update of the users row
AfterScrape(r) ==
  /\ request[r].pc = "scrape"
  /\ call[r].settled # "pending"
  /\ request' = [request EXCEPT ![r] =
                   IF call[r].settled = "rejected"
                   THEN Respond([@ EXCEPT !.failed = TRUE], 500, "scrape_failed")
                   ELSE [@ EXCEPT !.pc = "update", !.parsed = call[r].value]]
  /\ call' = [call EXCEPT ![r] = NoCall]
  /\ UNCHANGED << users, scrapeLogs, emails, invocations, faults, limiterVars, pageVars >>

\* the row written by the update on success, on the count the handler read
UpdatePayload(row, q) ==
  [row EXCEPT !.monthly_scrapes = q.seen + 1, !.profile = q.parsed]

\* adminSupabase.from('users').update(updatePayload): an error is logged
Update(r) ==
  /\ request[r].pc = "update"
  /\ \E ok \in Outcomes :
       /\ faults' = IF ok THEN faults ELSE faults + 1
       /\ users' = IF ok THEN UpdatePayload(users, request[r]) ELSE users
  /\ request' = [request EXCEPT ![r].pc = "log"]
  /\ UNCHANGED << scrapeLogs, emails, invocations, call, limiterVars, pageVars >>

\* adminSupabase.from('scrape_logs').insert(...): an error is logged
Log(r) ==
  /\ request[r].pc = "log"
  /\ \E ok \in Outcomes :
       /\ faults' = IF ok THEN faults ELSE faults + 1
       /\ scrapeLogs' = IF ok THEN scrapeLogs + 1 ELSE scrapeLogs
  /\ request' = [request EXCEPT ![r].pc = "email"]
  /\ UNCHANGED << users, emails, invocations, call, limiterVars, pageVars >>

\* await sendEmail(...) in its own try, then res.json({success: true, ...})
Email(r) ==
  /\ request[r].pc = "email"
  /\ \E ok \in Outcomes :
       /\ faults' = IF ok THEN faults ELSE faults + 1
       /\ emails' = IF ok THEN emails + 1 ELSE emails
  /\ request' = [request EXCEPT ![r] = Respond(@, 200, "")]
  /\ UNCHANGED << users, scrapeLogs, invocations, call, limiterVars, pageVars >>

\* POST /reset-scrapes with the admin key: update({ monthly_scrapes: 0 });
\* a new period starts
ResetScrapes ==
  /\ users.monthly_scrapes # 0 \/ invocations # 0
  /\ users' = [users EXCEPT !.monthly_scrapes = 0]
  /\ invocations' = 0
  /\ UNCHANGED << scrapeLogs, emails, request, faults, call, limiterVars, pageVars >>

ServerNext ==
  \/ ResetScrapes
  \/ \E r \in Requests :
       \/ Receive(r)
       \/ Upsert(r)
       \/ Launch(r)
       \/ Setup(r)
       \/ Goto(r)
       \/ WaitForTimeout(r)
       \/ AutoScroll(r)
       \/ Evaluate(r)
       \/ Close(r)
       \/ Catch(r)
       \/ AfterScrape(r)
       \/ Update(r)
       \/ Log(r)
       \/ Email(r)

ServerSpec == ServerInit /\ [][ServerNext]_vars

\* ---- autoScroll: the interval in the page ----
\* The first page.evaluate of autoScroll arms an interval whose callback
\* scrolls down by a fixed distance and resolves the promise once the
\* scrolled total has reached the height of the document or a fixed limit;
\* the second scrolls back to the top.

\* const distance = 100
ScrollDistance == 100

\* the scrolled total at which the callback stops whatever the height
ScrollLimit == 3000

\* the heights document.body.scrollHeight may have when autoScroll starts
HeightSet == {0, 50, 100, 250, 3000, 4000}

\* what the page may add to its height after a scroll step, as lazy
\* content loads
GrowthSet == {0, 100, 300}

\* the rate limiter and the calls at rest
NoEngine ==
  /\ requestsPerMinute = DefaultRequestsPerMinute
  /\ queue = << >>
  /\ isProcessing = FALSE
  /\ timers = {}
  /\ now = 0
  /\ enqueued = 0
  /\ jobState = [j \in JobIds |-> "None"]
  /\ startedAt = [j \in JobIds |-> -1]
  /\ settledAt = [j \in JobIds |-> -1]
  /\ handle = [j \in JobIds |-> "pending"]
  /\ delivered = NothingDelivered
  /\ faults = 0
  /\ call = [j \in JobIds |-> NoCall]

\* autoScroll has armed its interval on a page of some height
ScrollInit ==
  /\ NoServer
  /\ NoEngine
  /\ intercepted = << >>
  /\ \E h \in HeightSet :
       scroll = [ pc |-> "interval", timer |-> TRUE, totalHeight |-> 0,
                  scrollHeight |-> h, steps |-> 0 ]

\* totalHeight >= scrollHeight || totalHeight >= 3000
ReachedEnd(totalHeight, scrollHeight) ==
  totalHeight >= scrollHeight \/ totalHeight >= ScrollLimit

\* an interval that is left armed
KeepInterval(timer) == timer

\* clearInterval(timer)
ClearInterval(timer) == FALSE

\* the interval callback: the height is read, the window scrolled, the
\* total compared; the page may grow before the next tick
IntervalTick ==
  /\ scroll.timer
  /\ \E growth \in GrowthSet :
       LET total == scroll.totalHeight + ScrollDistance
           stop == ReachedEnd(total, scroll.scrollHeight)
       IN scroll' = [scroll EXCEPT
                       !.totalHeight = total,
                       !.steps = @ + 1,
                       !.timer = IF stop THEN ClearInterval(@) ELSE @,
                       !.pc = IF stop /\ @ = "interval" THEN "top" ELSE @,
                       !.scrollHeight = @ + growth]
  /\ UNCHANGED << limiterVars, faults, call, serverVars, intercepted >>

\* await page.evaluate(() => window.scrollTo(0, 0))
ScrollToTop ==
  /\ scroll.pc = "top"
  /\ scroll' = [scroll EXCEPT !.pc = "done"]
  /\ UNCHANGED << limiterVars, faults, call, serverVars, intercepted >>

ScrollNext ==
  \/ IntervalTick
  \/ ScrollToTop

\* the browser fires an armed interval, and the awaited evaluate runs
ScrollSpec ==
  /\ ScrollInit
  /\ [][ScrollNext]_vars
  /\ WF_vars(IntervalTick)
  /\ WF_vars(ScrollToTop)

\* ---- request interception ----
\* After setRequestInterception(true) every request of the page is paused
\* and handed to the 'request' handler, which runs to its end before the
\* next event.

\* the number of requests a page is followed for
MaxIntercepted == 2

\* the values of HTTPRequest.resourceType()
ResourceTypes ==
  { "document", "stylesheet", "image", "media", "font", "script",
    "texttrack", "xhr", "fetch", "prefetch", "eventsource", "websocket",
    "manifest", "signedexchange", "ping", "cspviolationreport", "preflight",
    "other" }

\* a handler without its else branch
HandlerWithoutElse(resourceType) ==
  IF resourceType = "image" \/ resourceType = "stylesheet" \/ resourceType = "font"
    THEN << "abort" >>
    ELSE << >>

\* the calls the handler makes on a request of the given type
RequestHandler(resourceType) ==
  IF resourceType = "image" \/ resourceType = "stylesheet" \/ resourceType = "font"
    THEN << "abort" >>
    ELSE << "continue" >>

\* the page has been set up and has issued no request
InterceptInit ==
  /\ NoServer
  /\ NoEngine
  /\ NoPage

\* the page issues a request and the handler is called with it
RequestEvent(resourceType) ==
  /\ Len(intercepted) < MaxIntercepted
  /\ intercepted' = Append(intercepted,
                      [ resourceType |-> resourceType,
                        calls |-> RequestHandler(resourceType) ])
  /\ UNCHANGED << limiterVars, faults, call, serverVars, scroll >>

InterceptNext == \E resourceType \in ResourceTypes : RequestEvent(resourceType)

InterceptSpec == InterceptInit /\ [][InterceptNext]_vars

\* a step of a scrapeLinkedInProfile call
ScrapeStep ==
  \E j \in JobIds :
    \/ Launch(j)
    \/ Setup(j)
    \/ Goto(j)
    \/ WaitForTimeout(j)
    \/ AutoScroll(j)
    \/ Evaluate(j)
    \/ Close(j)
    \/ Catch(j)

\* The event loop: every awaited operation of a call returns or throws, the
\* continuation of a settled await runs, time passes and an expired timer's
\* callback runs.  Callers need never call rateLimitedScrape again.  Progress
\* does not depend on how long a job takes, and the jobs take no time here.
FairNext ==
  \/ Enqueue
  \/ TimerFire
  \/ CooldownTick
  \/ ScrapeStep
  \/ \E j \in JobIds : Resume(j)

\* the scheduler with jobs that take no time, and nothing said about which
\* step comes: a job may stay at an await for ever
SchedSpec == Init /\ [][FairNext]_vars

FairSpec ==
  /\ Init /\ [][FairNext]_vars
  /\ WF_vars(ScrapeStep)
  /\ WF_vars(\E j \in JobIds : Resume(j))
  /\ WF_vars(CooldownTick)
  /\ WF_vars(TimerFire)

\* ------------------------------------------------------------- properties

\* the call of job j has settled: its promise is fulfilled or rejected
CallSettled(j) == call[j].pc = "settled"

\* the job's scrape execution has started and its handle is not yet settled
Running(j) == jobState[j] = "Running"

\* the steps of the try block that follow page.goto
AfterNavigation ==
  {"waitRandom", "scrollDown", "scrollTop", "waitSettle", "evaluate", "close"}

\* the keys of the record scrapeLinkedInProfile returns
ProfileFields ==
  {"name", "title", "location", "skills", "certifications", "companies",
   "education", "profilepicture", "connections"}

IsScrapeError(message) ==
  Len(message) >= 2 /\ Head(message) = "Scraping failed: "

\* C1: for every call whose browser launch succeeded, browser.close has been
\* invoked exactly once when the call settles.
C1_ReleasedExactlyOnce ==
  \A j \in JobIds :
    (CallSettled(j) /\ call[j].browser # "none") => call[j].closes = 1

\* C2: in every reachable state of a scheduler at most one job is Running.
C2_AtMostOneRunning ==
  Cardinality({j \in JobIds : Running(j)}) <= 1

\* a job is running while two later jobs wait in the queue
C2_Witness ==
  \E j \in JobIds : Running(j) /\ call[j].pc = "evaluate" /\ Len(queue) = 2

\* C3: jobs start in the order of their enqueue calls (job numbers are the
\* order of the enqueue calls): when a job has started, every job enqueued
\* before it has started and settled.
C3_FifoOrder ==
  \A a, b \in JobIds :
    (a < b /\ jobState[b] \in {"Running", "Done", "Failed"})
      => jobState[a] \in {"Done", "Failed"}

\* the third job runs after the second, which was queued together with it
C3_Witness ==
  /\ jobState[1] \in {"Done", "Failed"}
  /\ jobState[2] = "Running"
  /\ queue = << 3 >>

\* C4: a job enqueued after a job that has settled does not start until at
\* least 60000 / requestsPerMinute milliseconds after that settlement.
C4_CooldownSinceSettlement ==
  \A a, b \in JobIds :
    (a < b /\ settledAt[a] >= 0 /\ startedAt[b] >= 0)
      => (startedAt[b] - settledAt[a]) * requestsPerMinute >= CooldownBase

\* C5: a call in which nothing outside the program failed fulfils with a
\* record of all nine fields, whatever the page holds.
C5_FulfilsWithFullRecord ==
  \A j \in JobIds :
    (CallSettled(j) /\ ~call[j].external)
      => /\ call[j].settled = "fulfilled"
         /\ Len(call[j].value) = 1
         /\ DOMAIN call[j].value[1] = ProfileFields

\* C6: a call in which a step after navigation threw (the release on the
\* success path included) rejects, and no record reaches the caller or the
\* job's handle; a call that fulfils does so with the whole record.
C6_NoPartialRecord ==
  \A j \in JobIds :
    /\ (CallSettled(j) /\ call[j].error # << >>)
         => (call[j].settled = "rejected" /\ call[j].value = << >>)
    /\ call[j].settled = "fulfilled"
         => (call[j].error = << >> /\ call[j].value = << ExtractRecord(call[j].page[1]) >>)
    /\ (delivered.job = j /\ handle[j] = "rejected") => delivered.value = << >>

\* every field has been read, the release then threw, and the call rejected
C6_Witness ==
  \E j \in JobIds :
    /\ CallSettled(j)
    /\ call[j].data # << >>
    /\ call[j].error = ErrorOf("close")
    /\ call[j].settled = "rejected"

\* C7: every rejection of the call carries 'Scraping failed: <original>'.
C7_EveryRejectionWrapped ==
  \A j \in JobIds :
    call[j].settled = "rejected" => IsScrapeError(call[j].message)

\* C8: when navigation or extraction throws e, the call rejects with
\* 'Scraping failed: ' followed by e's message, after browser.close completed.
C8_WrappedAfterRelease ==
  \A j \in JobIds :
    (/\ CallSettled(j)
     /\ call[j].error # << >>
     /\ Head(call[j].error) \in {"goto", "evaluate", "profilepicture is not defined"})
      => /\ call[j].settled = "rejected"
         /\ call[j].message = ScrapingFailed(call[j].error)
         /\ call[j].browser = "closed"

\* C9: a call that rejects after its browser was launched has invoked
\* browser.close before rejecting.
C9_NoLeakOnError ==
  \A j \in JobIds :
    (call[j].settled = "rejected" /\ call[j].browser # "none")
      => call[j].closes >= 1

\* C10: when page.goto fails or times out, no later step of the try block
\* runs, the call rejects with a 'Scraping failed: ...' error and returns
\* no record.
C10_NavigationFailureAborts ==
  \A j \in JobIds :
    (call[j].error # << >> /\ Head(call[j].error) = "goto")
      => /\ \A k \in 1..Len(call[j].ran) : call[j].ran[k] \notin AfterNavigation
         /\ call[j].data = << >>
         /\ CallSettled(j)
              => /\ call[j].settled = "rejected"
                 /\ call[j].value = << >>
                 /\ IsScrapeError(call[j].message)

\* the changes of a job's state the scheduler makes; a job pushed on an idle
\* scheduler is shifted by the same rateLimitedScrape call
JobTransitions ==
  { << "None", "Queued" >>, << "None", "Running" >>, << "Queued", "Running" >>,
    << "Running", "Done" >>, << "Running", "Failed" >> }

\* C11: a job's state changes only along Queued -> Running -> Done | Failed;
\* fn() is called for it once; resolve or reject is called for it once, when
\* its call has settled and with what the call settled with; and, the event
\* loop running, every job pushed on the queue has its handle settled.
C11_JobLifecycle ==
  /\ [][\A j \in JobIds :
          /\ jobState'[j] # jobState[j]
               => << jobState[j], jobState'[j] >> \in JobTransitions
          /\ startedAt[j] >= 0 => startedAt'[j] = startedAt[j]
          /\ (call'[j] # call[j] /\ call'[j] = NewCall)
               => (call[j] = NoCall /\ jobState[j] \in {"None", "Queued"})
          /\ handle[j] # "pending"
               => (handle'[j] = handle[j] /\ (delivered'.job = j => delivered' = delivered))
          /\ handle'[j] # handle[j]
               => /\ jobState[j] = "Running"
                  /\ handle'[j] = call[j].settled
                  /\ delivered' = [job |-> j, value |-> call[j].value,
                                    message |-> call[j].message]
                  /\ jobState'[j] = IF call[j].value # << >> THEN "Done" ELSE "Failed"]_vars
  /\ \A j \in JobIds : (jobState[j] \in {"Queued", "Running"}) ~> (handle[j] # "pending")

\* the second job, which waited in the queue, failed and the third, which
\* waited behind it, was fulfilled with its record
C11_Witness ==
  /\ jobState[2] = "Failed"
  /\ jobState[3] = "Done"
  /\ delivered.job = 3
  /\ delivered.value # << >>

\* C12: rateLimitedScrape can be called whatever the scheduler is doing and
\* returns, in one step in which no time passes and no other job changes, a
\* promise of its own that is pending; a promise is settled only by the
\* resolve or reject call made for its own job, with that job's outcome.
C12_EnqueueReturnsOwnPendingHandle ==
  /\ [](enqueued < MaxJobs => ENABLED Enqueue)
  /\ [][/\ enqueued' # enqueued
            => /\ enqueued' = enqueued + 1
               /\ handle[enqueued'] = "pending" /\ jobState[enqueued'] = "None"
               /\ handle' = handle /\ delivered' = delivered
               /\ now' = now /\ timers' = timers
               /\ \A k \in JobIds \ {enqueued'} :
                    jobState'[k] = jobState[k] /\ call'[k] = call[k]
        /\ \A j \in JobIds :
             handle'[j] # handle[j]
               => /\ delivered'.job = j
                  /\ handle'[j] = call[j].settled
                  /\ \A k \in JobIds \ {j} : handle'[k] = handle[k]
        /\ delivered' # delivered
             => handle'[delivered'.job] # handle[delivered'.job]]_vars

\* two calls made while the first job ran or cooled down have returned: their
\* promises are pending although the first job's promise is fulfilled
C12_Witness ==
  /\ enqueued = 3
  /\ handle[1] = "fulfilled"
  /\ delivered.job = 1
  /\ timers # {}
  /\ queue = << 2, 3 >>
  /\ handle[2] = "pending" /\ handle[3] = "pending"

\* C13: the rejection of a job's handle changes no other job and arms the
\* cooldown timer with the flag still set; a job pushed after a failed job
\* starts no sooner than the timer's delay after the failure, with a call of
\* its own; and, the event loop running, a job queued behind a failed job is
\* started and the flag is cleared again.
C13_FailureDoesNotPoison ==
  /\ [][\A j \in JobIds :
          /\ (handle'[j] = "rejected" /\ handle[j] # "rejected")
               => /\ \A k \in JobIds \ {j} :
                       handle'[k] = handle[k] /\ jobState'[k] = jobState[k]
                  /\ queue' = queue
                  /\ isProcessing'
                  /\ now \in timers'
          /\ (startedAt'[j] # startedAt[j])
               => /\ call'[j] = NewCall
                  /\ \A a \in 1..(j - 1) :
                       jobState[a] = "Failed"
                         => startedAt'[j] - settledAt[a]
                              >= CooldownBase \div requestsPerMinute]_vars
  /\ \A b \in JobIds :
       (jobState[b] = "Queued" /\ \E a \in JobIds : jobState[a] = "Failed")
         ~> (jobState[b] = "Running")
  /\ (isProcessing /\ \E a \in JobIds : jobState[a] = "Failed") ~> ~isProcessing

\* the first job failed, and the second job, queued behind it, started one
\* cooldown after the failure and was fulfilled
C13_Witness ==
  /\ jobState[1] = "Failed"
  /\ jobState[2] = "Done"
  /\ startedAt[2] = settledAt[1] + CooldownDelay(requestsPerMinute)
  /\ handle[1] = "rejected" /\ handle[2] = "fulfilled"

\* the record page.evaluate returned to the call of job j, if any
Extracted(j) == call[j].data

\* the candidates of a list that match at least one element of the page
Matching(page, selectors) ==
  {i \in 1..Len(selectors) : Len(QuerySelectorAll(page, selectors[i])) > 0}

\* the earliest candidate that matches
Earliest(page, selectors) ==
  CHOOSE i \in Matching(page, selectors) :
    \A k \in Matching(page, selectors) : i <= k

\* the trimmed text of the first element of the earliest matching candidate
FirstMatchText(page, selectors) ==
  IF Matching(page, selectors) = {} THEN Null
  ELSE Trim(QuerySelectorAll(page, selectors[Earliest(page, selectors)])[1].text)

\* C14: in every record the in-page function returns, name, title and
\* location are each the trimmed text of the first element of the earliest
\* candidate that matches anything, and null when no candidate matches.
C14_FirstMatchWins ==
  \A j \in JobIds :
    Extracted(j) # << >> =>
      \A f \in {"name", "title", "location"} :
        Extracted(j)[1][f] = FirstMatchText(call[j].page[1], FieldSelectors(f))

\* the first two title candidates both match, with different texts, and the
\* record returned carries the first candidate's text
C14_Witness ==
  /\ call[1].settled = "fulfilled"
  /\ Len(QuerySelectorAll(call[1].page[1], titleSelectors[1])) > 0
  /\ Len(QuerySelectorAll(call[1].page[1], titleSelectors[2])) > 0
  /\ Trim(QuerySelectorAll(call[1].page[1], titleSelectors[1])[1].text)
       # Trim(QuerySelectorAll(call[1].page[1], titleSelectors[2])[1].text)
  /\ call[1].value[1].title
       = Trim(QuerySelectorAll(call[1].page[1], titleSelectors[1])[1].text)
  /\ call[1].value[1].name = Null

\* the trimmed texts of the elements the candidates match, in candidate
\* order and then document order
RECURSIVE MatchedTexts(_, _, _)
MatchedTexts(page, selectors, i) ==
  IF i > Len(selectors) THEN << >>
  ELSE LET elements == QuerySelectorAll(page, selectors[i])
       IN [k \in 1..Len(elements) |-> Trim(elements[k].text)]
            \o MatchedTexts(page, selectors, i + 1)

\* the positions of a sequence that hold a non-empty text not seen before
FirstSeen(all) ==
  {k \in 1..Len(all) : all[k] # << >> /\ \A m \in 1..(k - 1) : all[m] # all[k]}

\* the reference sequence: the texts at the first-seen positions, in order
Reference(all) ==
  LET idx == SelectSeq([k \in 1..Len(all) |-> k], LAMBDA k : k \in FirstSeen(all))
  IN [n \in 1..Len(idx) |-> all[idx[n]]]

MultiFields == {"skills", "certifications", "companies", "education"}

\* C15: in every record the in-page function returns, each multi-value field
\* is the reference sequence of its candidates' matched texts: it repeats no
\* text, holds no empty text and holds every non-empty matched text.
C15_DiscoveryOrderedSet ==
  \A j \in JobIds :
    Extracted(j) # << >> =>
      \A f \in MultiFields :
        LET got == Extracted(j)[1][f]
            all == MatchedTexts(call[j].page[1], FieldSelectors(f), 1)
        IN /\ got = Reference(all)
           /\ \A m, n \in 1..Len(got) : got[m] = got[n] => m = n
           /\ \A n \in 1..Len(got) : got[n] # << >>
           /\ \A k \in 1..Len(all) :
                all[k] # << >> => \E n \in 1..Len(got) : got[n] = all[k]

\* the two skill candidates match four elements: a text, a blank, the same
\* text with a leading space and another text; the record holds two skills
C15_Witness ==
  /\ call[1].settled = "fulfilled"
  /\ LET all == MatchedTexts(call[1].page[1], skillSelectors, 1)
     IN /\ Len(all) = 4
        /\ all[1] = << "a" >> /\ all[2] = << >> /\ all[3] = << "a" >>
        /\ call[1].value[1].skills = << all[1], all[4] >>
        /\ all[4] # all[1]

\* every character of a text is a decimal digit
AllDigits(t) == \A k \in 1..Len(t) : t[k] \in Digits

\* C16: in every record the in-page function returns and in every record the
\* call fulfils with, connections is null or consists of decimal digits only;
\* matched text '500+ connections' gives '500'; no match gives null.
C16_ConnectionsDigitsOrNull ==
  \A j \in JobIds :
    \A record \in {Extracted(j), call[j].value} :
      record # << >> =>
        LET raw == FirstMatchText(call[j].page[1], connectionSelectors)
        IN /\ record[1].connections = Null \/ AllDigits(record[1].connections)
           /\ raw = FiveHundredPlus => record[1].connections = << "5", "0", "0" >>
           /\ raw = Null => record[1].connections = Null

\* the first connections candidate matches '500+ connections' and the call
\* fulfilled with connections '500'
C16_Witness ==
  /\ call[1].settled = "fulfilled"
  /\ QuerySelectorAll(call[1].page[1], connectionSelectors[1]) # << >>
  /\ QuerySelectorAll(call[1].page[1], connectionSelectors[1])[1].text = FiveHundredPlus
  /\ call[1].value[1].connections = << "5", "0", "0" >>

\* C17: on a scheduler created with requestsPerMinute = 2 on which three
\* calls were made at the same instant, the third job's fn() is called at
\* least 30000 ms after the first job's.
C17_ThirdAfterThirtySeconds ==
  (requestsPerMinute = 2 /\ startedAt[3] >= 0)
    => startedAt[3] - startedAt[1] >= 30000

\* the first two jobs took no time and the third job has started
C17_Witness ==
  /\ requestsPerMinute = 2
  /\ settledAt[1] = startedAt[1]
  /\ settledAt[2] = startedAt[2]
  /\ startedAt[3] > 0
  /\ jobState[3] = "Running"

\* the jobs whose fn() was called in the 60000 ms that start at time t
DispatchedInWindow(t) ==
  {j \in DOMAIN startedAt : startedAt[j] >= t /\ startedAt[j] < t + CooldownBase}

\* C18: every half-open interval of 60000 ms holds at most requestsPerMinute
\* calls of fn() (it is enough to look at the intervals that start at a call).
C18_AtMostRpmPerMinute ==
  \A j \in DOMAIN startedAt :
    startedAt[j] >= 0
      => Cardinality(DispatchedInWindow(startedAt[j])) <= requestsPerMinute

\* the jobs made by the rateLimitedScrape of scheduler s
JobsOf(s) == {j \in JobIds : Owner(j) = s}

\* a step of scheduler s: a rateLimitedScrape call on it, a step of one of
\* its jobs, or its timer armed or fired
StepOf(s) ==
  \/ enqueued'[s] # enqueued[s]
  \/ timers'[s] # timers[s]
  \/ \E j \in JobsOf(s) : jobState'[j] # jobState[j] \/ call'[j] # call[j]

\* C19: of two schedulers, a step of one leaves the other's queue, flag,
\* timers and jobs as they were; a job waits in a scheduler's queue only
\* behind a running job or a pending cooldown of the same scheduler; each
\* scheduler has at most one job Running.
C19_SchedulersIndependent ==
  /\ [](\A s \in Schedulers :
         /\ \A k \in 1..Len(QueueOf(s)) : Owner(QueueOf(s)[k]) = s
         /\ QueueOf(s) # << >>
              => (timers[s] # {} \/ \E j \in JobsOf(s) : Running(j))
         /\ FlagOf(s) <=> (timers[s] # {} \/ \E j \in JobsOf(s) : Running(j))
         /\ Cardinality({j \in JobsOf(s) : Running(j)}) <= 1)
  /\ [][\A s, t \in Schedulers :
          (s # t /\ StepOf(s))
            => /\ QueueOf(t)' = QueueOf(t)
               /\ FlagOf(t)' = FlagOf(t)
               /\ timers'[t] = timers[t]
               /\ \A j \in JobsOf(t) :
                    jobState'[j] = jobState[j] /\ startedAt'[j] = startedAt[j]]_vars

\* a job of each scheduler is Running at the same time, the second started
\* while the first was already running
C19_Witness ==
  /\ Running(1) /\ Running(2)
  /\ call[1].pc = "evaluate"
  /\ call[2].pc = "launch"
  /\ queue[1] = << 3 >>

IsPrefix(a, b) == Len(a) <= Len(b) /\ \A k \in 1..Len(a) : a[k] = b[k]

\* the awaited operations of a call that meets no error, in program order
StepOrder == StepsBeforeEvaluate \o << "evaluate", "close" >>

\* the operations invoked in the body of the function, the catch clause apart
BodySteps(ran) == SelectSeq(ran, LAMBDA step : step # "catch close")

\* C20: the operations a call has invoked are, in order, an initial part of
\* launch, page set-up, goto, random wait, scroll down, scroll to top, settle
\* wait, evaluate, close, each invoked after the one before it returned; the
\* release of the catch clause comes last; and when page.evaluate has been
\* invoked, the scroll to the top and the settle wait have returned.
C20_StepsInOrder ==
  \A j \in JobIds :
    LET ran == call[j].ran
    IN /\ IsPrefix(BodySteps(ran), StepOrder)
       /\ \A k \in 1..Len(ran) : ran[k] = "catch close" => k = Len(ran)
       /\ (\E k \in 1..Len(ran) : ran[k] = "evaluate")
            => /\ \E m, n \in 1..Len(ran) :
                    /\ ran[m] = "scrollTop" /\ ran[n] = "waitSettle"
                    /\ m < n /\ ran[n + 1] = "evaluate"
               /\ call[j].error \in
                    {<< >>, ErrorOf("evaluate"), ReferenceError, ErrorOf("close")}

\* a call that met no error has invoked every operation, in program order
C20_Witness ==
  \E j \in JobIds :
    /\ call[j].settled = "fulfilled"
    /\ call[j].ran = StepOrder

\* C21: the scraper calls made for the account since the counter was last
\* reset never exceed the limit of the account's plan.
C21_InvocationsWithinLimit ==
  invocations <= PlanLimit(users.plan)

\* the src attribute of the first element of the earliest matching candidate
FirstMatchSrc(page, selectors) ==
  IF Matching(page, selectors) = {} THEN Null
  ELSE QuerySelectorAll(page, selectors[Earliest(page, selectors)])[1].src

\* C22: the profile picture the in-page function reads, and the field of the
\* record it returns, is the src of the first element of the earliest
\* candidate that matches, and null when no candidate matches.
C22_PictureOfFirstElement ==
  \A j \in DOMAIN call :
    call[j].page # << >> =>
      LET page == call[j].page[1]
      IN /\ getAttributeBySelectors(page, profilePictureSelectors)
              = FirstMatchSrc(page, profilePictureSelectors)
         /\ Extracted(j) # << >>
              => Extracted(j)[1].profilepicture
                   = FirstMatchSrc(page, profilePictureSelectors)

\* C23: in every record the in-page function returns, connections is null
\* or a non-empty string of digits, and is null when the matched text is
\* empty or holds no digit.
C23_ConnectionsNeverEmpty ==
  \A j \in DOMAIN call :
    Extracted(j) # << >> =>
      LET raw == FirstMatchText(call[j].page[1], connectionSelectors)
          got == Extracted(j)[1].connections
      IN /\ got # << >>
         /\ got # Null => AllDigits(got)
         /\ (raw # Null /\ StripNonDigits(raw) = << >>) => got = Null

\* C24: autoScroll terminates: whatever the height of the document, and
\* however the page grows after a step, it scrolls down at least once and
\* at most 30 times by 100 pixels, at most 3000 pixels in all; it stops at
\* the first tick at which the total has reached the height read at that
\* tick or 3000, the interval is cancelled at that tick, and no step down
\* follows the scroll back to the top.
C24_AutoScrollTerminates ==
  /\ [](/\ scroll.steps <= 30
        /\ scroll.totalHeight = 100 * scroll.steps
        /\ scroll.totalHeight <= 3000
        /\ scroll.pc \in {"top", "done"} => (scroll.steps >= 1 /\ ~scroll.timer))
  /\ [][ scroll'.steps # scroll.steps =>
           /\ scroll.pc = "interval"
           /\ scroll'.steps = scroll.steps + 1
           /\ LET reached == \/ scroll'.totalHeight >= scroll.scrollHeight
                             \/ scroll'.totalHeight >= 3000
              IN /\ (scroll'.pc = "top") <=> reached
                 /\ scroll'.timer <=> ~reached ]_vars
  /\ <>(scroll.pc = "done")

\* a page that grew after every step was scrolled 30 times and is back at
\* the top
C24_Witness ==
  /\ scroll.pc = "done"
  /\ scroll.steps = 30
  /\ scroll.scrollHeight >= 4000 + 30 * 100

\* C25: every intercepted request is resolved exactly once: it is aborted
\* when its type is image, stylesheet or font and continued for every other
\* type; none is left unresolved.
C25_ResolvedExactlyOnce ==
  \A i \in DOMAIN intercepted :
    LET req == intercepted[i]
    IN /\ Len(req.calls) = 1
       /\ req.resourceType \in {"image", "stylesheet", "font"} => req.calls[1] = "abort"
       /\ req.resourceType \notin {"image", "stylesheet", "font"} => req.calls[1] = "continue"

\* a font and a script were requested
C25_Witness ==
  /\ \E i \in DOMAIN intercepted : intercepted[i].resourceType = "font"
  /\ \E i \in DOMAIN intercepted : intercepted[i].resourceType = "script"

\* a job is running or the cooldown after a job is pending
Busy == (\E j \in JobIds : Running(j)) \/ timers # {}

\* C26: the queue and isProcessing change only in rateLimitedScrape's push
\* and in processQueue, called from there or from the cooldown timer; a
\* rateLimitedScrape call made while a job is running or cooling down
\* leaves the flag, the running job and the order of the queued jobs as
\* they were and adds one job at the tail of the queue.
C26_EnqueueWhileBusy ==
  /\ [][ (Busy /\ enqueued' # enqueued) =>
           /\ queue' = Append(queue, enqueued')
           /\ isProcessing' = isProcessing
           /\ \A j \in JobIds \ {enqueued'} : jobState'[j] = jobState[j]
           /\ jobState'[enqueued'] = "Queued"
           /\ UNCHANGED << call, timers, startedAt, settledAt, handle, delivered >>
       ]_vars
  /\ [][ (queue' # queue \/ isProcessing' # isProcessing) =>
           \/ enqueued' = enqueued + 1
           \/ \E start \in timers : timers' = timers \ {start}
       ]_vars

\* two jobs wait in the order of their calls while the cooldown of the
\* first is pending
C26_Witness ==
  /\ queue = << 2, 3 >>
  /\ isProcessing
  /\ timers # {}

\* C27: whenever the queue is not empty, isProcessing is true and a job is
\* running or a cooldown timer is pending: no state has a queued job, a
\* false flag and nothing that will dequeue the job.
C27_NoLostWakeup ==
  queue # << >> =>
    /\ isProcessing
    /\ Busy

\* a job waits while the cooldown is pending and no job runs
C27_Witness ==
  /\ queue # << >>
  /\ timers # {}
  /\ \A j \in JobIds : ~Running(j)

\* C28: a running job leaves the running state only once its execution
\* has settled; as long as it has not, isProcessing is true, and every
\* job enqueued after it is neither dispatched nor settled.
C28_NoTimeoutNoCancellation ==
  /\ [](\A j \in JobIds :
          (Running(j) /\ call[j].settled = "pending") =>
            /\ isProcessing
            /\ \A k \in JobIds :
                 k > j => /\ jobState[k] \in {"None", "Queued"}
                          /\ handle[k] = "pending")
  /\ [][ \A j \in JobIds :
           (Running(j) /\ call[j].settled = "pending") =>
             /\ Running(j)'
             /\ isProcessing'
             /\ \A k \in JobIds : jobState[k] = "Queued" => jobState'[k] = "Queued"
             /\ \A i \in DOMAIN queue : queue'[i] = queue[i]
       ]_vars

\* the first job is at an await, and two jobs wait behind it
C28_Witness ==
  /\ Running(1)
  /\ call[1].settled = "pending"
  /\ call[1].pc = "evaluate"
  /\ queue = << 2, 3 >>

\* C29: browser.close is invoked at most once in a scrapeLinkedInProfile
\* call, also when browser.close itself throws: a release that fails on the
\* success path is not attempted a second time.
C29_CloseAtMostOnce ==
  \A j \in JobIds : call[j].closes <= 1

\* C30: when the scrape called by POST /scrape-profile fails, the handler
\* leaves the stored profile and monthly_scrapes as they are, inserts no
\* scrape_logs row, sends no e-mail and answers 500 with error
\* 'scrape_failed'; the profile, the counter, the log and the e-mails
\* change only in the steps of a request whose scrape has returned a record.
C30_FailedScrapeLeavesNoTrace ==
  /\ [](\A r \in Requests :
          request[r].failed =>
            /\ request[r].pc = "done"
            /\ request[r].status = 500
            /\ request[r].error = "scrape_failed")
  /\ [][ \A r \in Requests :
           (/\ request[r].pc = "scrape"
            /\ call[r].settled = "rejected"
            /\ request'[r] # request[r]) =>
             /\ request'[r].pc = "done"
             /\ request'[r].status = 500
             /\ request'[r].error = "scrape_failed"
             /\ UNCHANGED << users, scrapeLogs, emails >>
       ]_vars
  /\ [][ (\/ users'.monthly_scrapes > users.monthly_scrapes
          \/ users'.profile # users.profile
          \/ scrapeLogs' # scrapeLogs
          \/ emails' # emails) =>
           \E r \in Requests :
             /\ request[r].pc \in {"update", "log", "email"}
             /\ request'[r] # request[r]
             /\ request[r].parsed # << >>
             /\ ~request[r].failed
       ]_vars

\* a request whose scrape failed has been answered, and the account is as
\* the handler read it
C30_Witness ==
  \E r \in Requests :
    /\ request[r].failed
    /\ request[r].status = 500
    /\ users.monthly_scrapes = request[r].seen
    /\ users.profile = << >>
    /\ scrapeLogs = 0
    /\ emails = 0

====
